---- MODULE Spec2Model ----
(***************************************************************************)
(* LiveEditorLocalDriver.js: the client-side driver of a live CSS shape    *)
(* editor that runs in the inspected page.  The state is the module-level  *)
(* variables of the driver (lines 35-53), the interval timers it created,  *)
(* and the remote evaluations that are in flight.  One action per exported *)
(* operation, per timer tick and per response of the inspector.            *)
(*                                                                         *)
(* Deferred callbacks are those of the jQuery 1.x/2.x bundled with         *)
(* Brackets: they run synchronously inside resolve()/reject(), and an      *)
(* exception thrown by a callback leaves through the caller of resolve().  *)
(***************************************************************************)
EXTENDS Naturals, Sequences, FiniteSets, TLC

VARIABLES
    _model,        \* line 38: snapshot of the remote model (a mapping)
    _hasEditor,    \* line 41
    _syncInterval, \* line 47: TRUE iff the stored handle names a running timer
    timers,        \* number of running window.setInterval timers
    _retryCount,   \* line 50
    _cache,        \* line 53: [model, dependencies]
    pending,       \* Inspector.Runtime.evaluate calls awaiting their callback
    hist,          \* history of the remote setup calls (kept by SpecHistory)
    ev             \* history: what the last handler did

vars == <<_model, _hasEditor, _syncInterval, timers, _retryCount, _cache,
          pending, hist, ev>>

----------------------------------------------------------------------------
(* Bounds of the model *)

\* most evaluations awaiting a response at once
MaxInFlight == 2
\* most interval timers running at once
MaxTimers == 2
\* longest cached dependency list
MaxScripts == 3
\* the same three bounds of the smaller specifications (SpecHistory, SpecCompact)
MaxHistoryInFlight == 1
MaxHistoryTimers == 1
MaxHistoryScripts == 2
\* the JSON values a polled mapping draws from in SpecMerge
MaxValues == 6

(* Program constants *)

\* lines 50 and 254: the number of attempts to reconnect
RetryMax == 5

\* JavaScript's undefined
Undefined == "undefined"

----------------------------------------------------------------------------
(* Values *)

\* The Model instances handed to setup/update, by name; model.get(...) is get.
\* A and A2 are the same editor (selector, property) with different values,
\* B differs from A in the selector, C differs from A in the property.
Targets == {"A", "A2", "B"}
AllTargets == Targets \cup {"C"}

get(t, name) ==
    CASE name = "selector" -> IF t = "B" THEN "s2" ELSE "s1"
      [] name = "property" -> IF t = "C" THEN "p2" ELSE "p1"
      [] name = "value"    -> IF t = "A2" THEN "v2" ELSE "v1"

\* lines 100-104 and 143-147
attr(t) == [selector |-> get(t, "selector"),
            value    |-> get(t, "value"),
            property |-> get(t, "property")]

\* the identity of an editor is its (selector, property)
SameEditor(t, u) ==
    get(t, "selector") = get(u, "selector") /\ get(t, "property") = get(u, "property")

\* the empty object literal {}
EmptyObject == [k \in {} |-> Undefined]

\* obj[key] of a JavaScript object: undefined when the key is absent
Prop(obj, key) == IF key \in DOMAIN obj THEN obj[key] ELSE Undefined

\* JSON values are written as their canonical JSON text; these are the ones
\* JavaScript's ! operator takes for false
Falsy == {Undefined, "0", "false", "\"\"", "null"}

\* _.isEqual on parsed JSON values: deep equality is equality of canonical text
isEqual(a, b) == a = b

\* JSON.stringify / JSON.parse of an object: a text is either the encoding of a
\* mapping or not parsable at all
JSONstringify(obj) == [tag |-> "json", obj |-> obj]
Unparsable == [tag |-> "garbage", obj |-> EmptyObject]
JSONparse(text) == text.obj
JSONparses(text) == text.tag = "json"

\* the bundled remote driver source (line 32) and the provider sources
LiveEditorRemoteDriver == "LiveEditorRemoteDriver.js"
Providers == {<<"provider.js">>}

----------------------------------------------------------------------------
(* Outcomes of an evaluation (lines 73-81) *)

\* resp.result.description of a thrown evaluation: one that matches
\* /Cannot call method/ (line 228) and one that does not
LostContext == "TypeError: Cannot call method 'setup' of undefined"
RemoteFault == "ReferenceError: err is not defined"
Diagnostics == {LostContext, RemoteFault}

\* resp.result of a getModel() evaluation that was not thrown: {value: <JSON>}
\* for an editor's model, an unparsable string, a missing value, a non-string
GetModelResults(targets) ==
    {[type |-> "string", value |-> JSONstringify(attr(t))] : t \in targets}
    \cup {[type |-> "string", value |-> Unparsable],
          [type |-> "undefined", value |-> Unparsable],
          [type |-> "number", value |-> Unparsable]}

----------------------------------------------------------------------------
(* The handlers.  Each takes the state s it runs in, a record of the program *)
(* variables and of what the running handler has done so far, and yields the *)
(* state it leaves.  conn is Inspector.connected() while the handler runs.   *)

\* the state a handler starts in
Current ==
    [model |-> _model, hasEditor |-> _hasEditor, syncInterval |-> _syncInterval,
     timers |-> timers, retryCount |-> _retryCount, cache |-> _cache,
     pending |-> pending,
     issued |-> <<>>, init |-> FALSE, modelChange |-> FALSE,
     payload |-> EmptyObject, ret |-> Undefined, threw |-> FALSE,
     refused |-> FALSE, before |-> _model, data |-> EmptyObject]

\* lines 62-84.  Every expression the driver builds is a non-empty string, so
\* the TypeError of line 66 is never thrown.  A rejected call leaves nothing
\* in flight; s.ret is the state of the promise returned, s.refused records
\* that line 70 was taken.
_call(s, conn, expression) ==
    IF ~conn
    THEN [s EXCEPT !.ret = "rejected", !.refused = TRUE]
    ELSE [s EXCEPT !.pending = Append(@, [kind    |-> expression.kind,
                                          cont    |-> "none",
                                          closure |-> Undefined]),
                   !.issued = Append(@, expression),
                   !.ret = "pending"]

\* the three namespace calls and the poll: _namespace + '.setup(' + JSON + ')'
Expr(kind, target) == [kind |-> kind, target |-> target, scripts |-> <<>>]

\* .then(f) / .fail(f) on the promise of the call just issued: the callbacks
\* cont names run when its response arrives; model is the closure variable of
\* line 153
then(s, cont, model) ==
    IF s.ret = "pending"
    THEN [s EXCEPT !.pending[Len(s.pending)].cont = cont,
                   !.pending[Len(s.pending)].closure = model]
    ELSE s

\* lines 187-189
_startSyncLoop(s) ==
    [s EXCEPT !.timers = @ + 1, !.syncInterval = TRUE]

\* lines 191-193: clearInterval of a stale or undefined handle does nothing
_stopSyncLoop(s) ==
    IF s.syncInterval
    THEN [s EXCEPT !.timers = @ - 1, !.syncInterval = FALSE]
    ELSE s

\* lines 181-185
_reset(s) ==
    [_stopSyncLoop(s) EXCEPT !.hasEditor = FALSE, !.model = EmptyObject]

\* lines 166-176
_remove(s, conn) ==
    IF s.hasEditor = FALSE
    THEN [s EXCEPT !.ret = Undefined]
    ELSE _call(_reset(s), conn, Expr("remove", Undefined))

\* lines 271-280; an undefined providers argument is the empty list (line 272)
_init(s, conn, providers) ==
    LET scripts == <<LiveEditorRemoteDriver>> \o providers
    IN  _call([s EXCEPT !.cache.dependencies = scripts, !.init = TRUE],
              conn,
              [kind |-> "init", target |-> Undefined, scripts |-> scripts])

\* lines 248-265, without onPostInit, which runs when the injection resolves
_reconnect(s, conn) ==
    IF s.retryCount = 0
    THEN [s EXCEPT !.ret = "rejected"]
    ELSE then(_init([s EXCEPT !.retryCount = @ - 1], conn, s.cache.dependencies),
              "onPostInit", Undefined)

\* a failure handler that took every failure for a lost context
_whenRemoteCallFailedAlways(s, conn, result) == _reconnect(s, conn)

\* lines 227-235; result is the diagnostic's description, or undefined
_whenRemoteCallFailed(s, conn, result) ==
    IF result = LostContext
    THEN _reconnect(s, conn)
    ELSE _remove([s EXCEPT !.cache.model = Undefined], conn)

\* a call that is rejected at once (not connected) runs its fail callback at once
\* (lines 70 and 119, 158, 198); the promise of the chain stays rejected
failNow(s, conn) ==
    IF s.ret = "rejected"
    THEN [_whenRemoteCallFailed(s, conn, Undefined) EXCEPT !.ret = "rejected"]
    ELSE s

RECURSIVE _setup(_, _, _)
RECURSIVE _update(_, _, _)

\* lines 96-120
_setup(s, conn, model) ==
    LET s1 == [s EXCEPT !.cache.model = IF @ = Undefined THEN model ELSE @]
    IN  IF s1.hasEditor
           /\ get(model, "selector") = Prop(s1.model, "selector")
           /\ get(model, "property") = Prop(s1.model, "property")
        THEN _update(s1, conn, model)
        ELSE failNow(then(_call(s1, conn, Expr("setup", model)), "setup", Undefined),
                     conn)

\* lines 132-159; a Model instance is always passed, so line 134 never throws
_update(s, conn, model) ==
    IF s.hasEditor = FALSE
    THEN _setup(s, conn, model)
    ELSE LET s1 == [s EXCEPT !.cache.model = model]
         IN  IF get(model, "selector") # Prop(s1.model, "selector")
                \/ get(model, "property") # Prop(s1.model, "property")
             THEN then(_remove(s1, conn), "switch", model)
             ELSE failNow(then(_call(s1, conn, Expr("update", model)),
                               "update", Undefined),
                          conn)

\* lines 251-255: model.get of an undefined _cache.model throws before line 254
onPostInit(s, conn) ==
    LET s1 == _reset(s)
    IN  IF s1.cache.model = Undefined
        THEN [s1 EXCEPT !.threw = TRUE]
        ELSE [_setup(s1, conn, s1.cache.model) EXCEPT !.retryCount = RetryMax]

\* lines 195-199
_onSyncTick(s, conn) ==
    failNow(then(_call(s, conn, Expr("getModel", Undefined)), "sync", Undefined),
            conn)

\* a poll that replaced the snapshot wholesale, which lines 210-215 do not do
MergeReplace(old, data) == data

\* lines 210-215: the snapshot after the loop
Merge(old, data) ==
    [key \in DOMAIN old \cup DOMAIN data |->
        IF key \in DOMAIN data
           /\ (Prop(old, key) \in Falsy \/ ~isEqual(Prop(old, key), data[key]))
        THEN data[key]
        ELSE old[key]]

\* lines 207-215: hasChanged after the loop
HasChanged(old, data) ==
    \E key \in DOMAIN data :
        Prop(old, key) \in Falsy \/ ~isEqual(Prop(old, key), data[key])

\* lines 201-221; the TypeError of line 203 and the SyntaxError of JSON.parse
\* are thrown out of the callback
_whenGetRemoteModel(s, model) ==
    IF model.type # "string" \/ ~JSONparses(model.value)
    THEN [s EXCEPT !.threw = TRUE]
    ELSE LET data == JSONparse(model.value)
             hasChanged == HasChanged(s.model, data)
             merged == Merge(s.model, data)
         IN  [s EXCEPT !.model = merged,
                       !.modelChange = hasChanged,
                       !.payload = IF hasChanged THEN merged ELSE EmptyObject,
                       !.data = data]

----------------------------------------------------------------------------
(* The state machine *)

\* ev.before and ev.data are the snapshot a poll found and the mapping it
\* parsed; they are empty for every other handler
NoEvent ==
    [op |-> "none", target |-> Undefined, call |-> Undefined, cont |-> Undefined,
     outcome |-> Undefined, issued |-> <<>>, init |-> FALSE,
     modelChange |-> FALSE, payload |-> EmptyObject, ret |-> Undefined,
     threw |-> FALSE, refused |-> FALSE, before |-> EmptyObject,
     data |-> EmptyObject]

\* requested: the targets of the remote setup calls in flight, oldest first;
\* active: the target of the last remote setup call that succeeded;
\* last: the target of the last client setup/update that issued a remote call
NoHistory == [requested |-> <<>>, active |-> Undefined, last |-> Undefined]

\* the state after the module is loaded (lines 35-53)
Init ==
    /\ _model = EmptyObject
    /\ _hasEditor = FALSE
    /\ _syncInterval = FALSE
    /\ timers = 0
    /\ _retryCount = RetryMax
    /\ _cache = [model |-> Undefined, dependencies |-> <<>>]
    /\ pending = <<>>
    /\ hist = NoHistory
    /\ ev = NoEvent

\* What a specification explores: the Model instances the client passes, the
\* evaluations it lets be in flight at once, and whether it keeps hist.
FullScope ==
    [targets |-> Targets, inFlight |-> MaxInFlight, timers |-> MaxTimers,
     scripts |-> MaxScripts, history |-> FALSE, saturate |-> FALSE]
HistoryScope ==
    [targets |-> AllTargets, inFlight |-> MaxHistoryInFlight,
     timers |-> MaxHistoryTimers, scripts |-> MaxHistoryScripts, history |-> TRUE,
     saturate |-> FALSE]

CompactScope ==
    [targets |-> {"A", "B"}, inFlight |-> MaxHistoryInFlight,
     timers |-> MaxHistoryTimers, scripts |-> MaxScripts, history |-> FALSE,
     saturate |-> FALSE]
\* LostScope keeps of the dependency list its first entries only: the driver
\* never reads the list but to join it (line 279)
LostScope ==
    [targets |-> {"A", "B"}, inFlight |-> MaxHistoryInFlight,
     timers |-> MaxHistoryTimers, scripts |-> MaxScripts, history |-> FALSE,
     saturate |-> TRUE]

\* the dependency list a specification keeps
Kept(dependencies, scope) ==
    IF scope.saturate /\ Len(dependencies) > scope.scripts
    THEN SubSeq(dependencies, 1, scope.scripts)
    ELSE dependencies

WithinBounds(s, scope) ==
    /\ Len(s.pending) <= scope.inFlight
    /\ s.timers <= scope.timers
    /\ Len(Kept(s.cache.dependencies, scope)) <= scope.scripts

\* the handler that ran and what it did
Event(s, op, target, head, outcome) ==
    [op |-> op, target |-> target, call |-> head.kind, cont |-> head.cont,
     outcome |-> outcome, issued |-> s.issued, init |-> s.init,
     modelChange |-> s.modelChange, payload |-> s.payload, ret |-> s.ret,
     threw |-> s.threw, refused |-> s.refused,
     before |-> IF head.cont = "sync" /\ outcome = "ok" THEN s.before ELSE EmptyObject,
     data |-> s.data]

NoCall == [kind |-> Undefined, cont |-> Undefined]

\* the targets of the remote setup calls a handler issued
SetupsOf(issued) ==
    LET idx == {i \in 1..Len(issued) : issued[i].kind = "setup"}
    IN  IF idx = {} THEN <<>> ELSE <<issued[CHOOSE i \in idx : TRUE].target>>

\* hist after the handler of event e
Track(e) ==
    LET answered == e.op \in {"resolve", "reject"} /\ e.call = "setup"
        rest == IF answered THEN Tail(hist.requested) ELSE hist.requested
    IN  [requested |-> rest \o SetupsOf(e.issued),
         active |-> IF answered /\ e.outcome = "ok"
                    THEN Head(hist.requested) ELSE hist.active,
         last |-> IF e.op \in {"setup", "update"} /\ e.issued # <<>>
                  THEN e.target ELSE hist.last]

\* the handler leaves state s
Commit(s, e, scope) ==
    /\ WithinBounds(s, scope)
    /\ _model' = s.model
    /\ _hasEditor' = s.hasEditor
    /\ _syncInterval' = s.syncInterval
    /\ timers' = s.timers
    /\ _retryCount' = s.retryCount
    /\ _cache' = [s.cache EXCEPT !.dependencies = Kept(@, scope)]
    /\ pending' = s.pending
    /\ hist' = IF scope.history THEN Track(e) ELSE hist
    /\ ev' = e

\* exports.init (line 282)
ClientInit(scope) ==
    \E providers \in Providers, conn \in BOOLEAN :
        LET s == _init(Current, conn, providers)
        IN  Commit(s, Event(s, "init", Undefined, NoCall, Undefined), scope)

\* exports.setup (line 283)
ClientSetup(scope) ==
    \E model \in scope.targets, conn \in BOOLEAN :
        LET s == _setup(Current, conn, model)
        IN  Commit(s, Event(s, "setup", model, NoCall, Undefined), scope)

\* exports.update (line 284)
ClientUpdate(scope) ==
    \E model \in scope.targets, conn \in BOOLEAN :
        LET s == _update(Current, conn, model)
        IN  Commit(s, Event(s, "update", model, NoCall, Undefined), scope)

\* exports.remove (line 285)
ClientRemove(scope) ==
    \E conn \in BOOLEAN :
        LET s == _remove(Current, conn)
        IN  Commit(s, Event(s, "remove", Undefined, NoCall, Undefined), scope)

\* a running interval timer fires (line 188)
SyncTick(scope) ==
    /\ timers > 0
    /\ \E conn \in BOOLEAN :
        LET s == _onSyncTick(Current, conn)
        IN  Commit(s, Event(s, "tick", Undefined, NoCall, Undefined), scope)

\* the state in which the callback of the oldest evaluation runs
Answered == [Current EXCEPT !.pending = Tail(@)]

\* lines 78-80, 117-118: a remote setup was not thrown
ResolveSetup(scope) ==
    /\ pending # <<>>
    /\ pending[1].cont = "setup"
    /\ LET s == [_startSyncLoop(Answered) EXCEPT !.hasEditor = TRUE]
       IN  Commit(s, Event(s, "resolve", Undefined, pending[1], "ok"), scope)

\* lines 78-80, 153: the remote remove of a target switch was not thrown
ResolveSwitch(scope) ==
    /\ pending # <<>>
    /\ pending[1].cont = "switch"
    /\ \E conn \in BOOLEAN :
        LET s == _setup(Answered, conn, pending[1].closure)
        IN  Commit(s, Event(s, "resolve", pending[1].closure, pending[1], "ok"),
                   scope)

\* lines 78-80, 264: the injection of a reconnect was not thrown
ResolveInit(scope) ==
    /\ pending # <<>>
    /\ pending[1].cont = "onPostInit"
    /\ \E conn \in BOOLEAN :
        LET s == onPostInit(Answered, conn)
        IN  Commit(s, Event(s, "resolve", Undefined, pending[1], "ok"), scope)

\* The editors whose model a poll may report.  The driver takes any mapping;
\* where hist is kept the remote page reports the editor it was last set up
\* with, with any value.
Reported(scope) ==
    IF scope.history
    THEN {t \in scope.targets : hist.active # Undefined /\ SameEditor(t, hist.active)}
    ELSE scope.targets

\* lines 78-80, 198: a poll was not thrown
ResolveGetModel(scope) ==
    /\ pending # <<>>
    /\ pending[1].cont = "sync"
    /\ \E result \in GetModelResults(Reported(scope)) :
        LET s == _whenGetRemoteModel(Answered, result)
        IN  Commit(s, Event(s, "resolve", Undefined, pending[1], "ok"), scope)

\* lines 78-80: an evaluation with no done callback was not thrown
\* (lines 158, 175, 279)
ResolveOther(scope) ==
    /\ pending # <<>>
    /\ pending[1].cont \in {"update", "none"}
    /\ Commit(Answered, Event(Answered, "resolve", Undefined, pending[1], "ok"),
              scope)

\* lines 74-77: the evaluation was thrown and its chain has a fail callback
\* (lines 119, 158, 198)
Reject(scope) ==
    /\ pending # <<>>
    /\ pending[1].cont \in {"setup", "update", "sync"}
    /\ \E result \in Diagnostics, conn \in BOOLEAN :
        LET s == _whenRemoteCallFailed(Answered, conn, result)
        IN  Commit(s, Event(s, "reject", Undefined, pending[1], result), scope)

\* lines 74-77: the evaluation was thrown and its chain has no fail callback
\* (lines 153, 175, 264, 279)
RejectUnhandled(scope) ==
    /\ pending # <<>>
    /\ pending[1].cont \in {"switch", "onPostInit", "none"}
    /\ \E result \in Diagnostics :
        Commit(Answered,
               Event(Answered, "reject", pending[1].closure, pending[1], result),
               scope)

\* the driver with up to MaxInFlight evaluations in flight
Next ==
    \/ ClientInit(FullScope)
    \/ ClientSetup(FullScope)
    \/ ClientUpdate(FullScope)
    \/ ClientRemove(FullScope)
    \/ SyncTick(FullScope)
    \/ ResolveSetup(FullScope)
    \/ ResolveSwitch(FullScope)
    \/ ResolveInit(FullScope)
    \/ ResolveGetModel(FullScope)
    \/ ResolveOther(FullScope)
    \/ Reject(FullScope)
    \/ RejectUnhandled(FullScope)

Spec == Init /\ [][Next]_vars

\* the driver with the history of its remote setup calls
NextHistory ==
    \/ ClientInit(HistoryScope)
    \/ ClientSetup(HistoryScope)
    \/ ClientUpdate(HistoryScope)
    \/ ClientRemove(HistoryScope)
    \/ SyncTick(HistoryScope)
    \/ ResolveSetup(HistoryScope)
    \/ ResolveSwitch(HistoryScope)
    \/ ResolveInit(HistoryScope)
    \/ ResolveGetModel(HistoryScope)
    \/ ResolveOther(HistoryScope)
    \/ Reject(HistoryScope)
    \/ RejectUnhandled(HistoryScope)

SpecHistory == Init /\ [][NextHistory]_vars

\* the driver with two targets and the smaller bounds
NextCompact ==
    \/ ClientInit(CompactScope)
    \/ ClientSetup(CompactScope)
    \/ ClientUpdate(CompactScope)
    \/ ClientRemove(CompactScope)
    \/ SyncTick(CompactScope)
    \/ ResolveSetup(CompactScope)
    \/ ResolveSwitch(CompactScope)
    \/ ResolveInit(CompactScope)
    \/ ResolveGetModel(CompactScope)
    \/ ResolveOther(CompactScope)
    \/ Reject(CompactScope)
    \/ RejectUnhandled(CompactScope)

SpecCompact == Init /\ [][NextCompact]_vars

----------------------------------------------------------------------------
(* The driver once the page has lost the editor's namespace: every remote    *)
(* setup and every poll is thrown with the LostContext diagnostic            *)

\* an editor for A is set up and a poll has stored its model
InitLost ==
    /\ _model = attr("A")
    /\ _hasEditor = TRUE
    /\ _syncInterval = TRUE
    /\ timers = 1
    /\ _retryCount = RetryMax
    /\ _cache = [model |-> "A",
                 dependencies |-> <<LiveEditorRemoteDriver, "provider.js">>]
    /\ pending = <<>>
    /\ hist = NoHistory
    /\ ev = NoEvent

\* lines 74-77: a thrown evaluation whose chain has a fail callback; a remote
\* setup or poll is thrown with LostContext, an update with any diagnostic
RejectLost(scope) ==
    /\ pending # <<>>
    /\ pending[1].cont \in {"setup", "update", "sync"}
    /\ \E result \in Diagnostics, conn \in BOOLEAN :
        /\ pending[1].cont \in {"setup", "sync"} => result = LostContext
        /\ LET s == _whenRemoteCallFailed(Answered, conn, result)
           IN  Commit(s, Event(s, "reject", Undefined, pending[1], result), scope)

\* the inspector answers the oldest evaluation
AnswerLost ==
    \/ ResolveSwitch(LostScope)
    \/ ResolveInit(LostScope)
    \/ ResolveOther(LostScope)
    \/ RejectLost(LostScope)
    \/ RejectUnhandled(LostScope)

NextLost ==
    \/ ClientInit(LostScope)
    \/ ClientSetup(LostScope)
    \/ ClientUpdate(LostScope)
    \/ ClientRemove(LostScope)
    \/ SyncTick(LostScope)
    \/ AnswerLost

\* Inspector.Runtime.evaluate calls its callback for every evaluation: an
\* evaluation in flight is answered eventually
SpecLost == InitLost /\ [][NextLost]_vars /\ WF_vars(AnswerLost)

----------------------------------------------------------------------------
(* The merge of a poll (lines 201-221) over arbitrary JSON mappings *)

\* the keys of a mapping, and the values of a key as canonical JSON text: two
\* numbers, the four values JavaScript's ! takes for false, and an array
MergeKeys == {"a", "b"}
JSONTexts == <<"1", "3", "0", "false", "\"\"", "null", "[1,2]", "{\"x\":0}">>
JSONValues == {JSONTexts[i] : i \in 1..MaxValues}
Snapshots == UNION {[D -> JSONValues] : D \in SUBSET MergeKeys}

\* an editor is set up and its polls have left some snapshot
InitMerge ==
    /\ _model \in Snapshots
    /\ _hasEditor = TRUE
    /\ _syncInterval = TRUE
    /\ timers = 1
    /\ _retryCount = RetryMax
    /\ _cache = [model |-> "A", dependencies |-> <<>>]
    /\ pending = <<>>
    /\ hist = NoHistory
    /\ ev = NoEvent

\* the done callback of line 198 on the polled mapping data
MergePoll ==
    \E data \in Snapshots :
        LET result == [type |-> "string", value |-> JSONstringify(data)]
            s == _whenGetRemoteModel(Current, result)
        IN  Commit(s, Event(s, "resolve", Undefined,
                            [kind |-> "getModel", cont |-> "sync"], "ok"),
                   FullScope)

NextMerge == MergePoll

SpecMerge == InitMerge /\ [][NextMerge]_vars

----------------------------------------------------------------------------
(* The claims *)

\* the session is Active(t): an editor is set up, and t is the target of the
\* remote setup that succeeded last
Active(t) == _hasEditor /\ hist.active = t

\* the remote calls a handler issued, by name
Kinds(issued) == [i \in 1..Len(issued) |-> issued[i].kind]

\* the lifecycle-mutating remote calls
Lifecycle == {"setup", "update", "remove"}

\* C1: once a remote setup for t1 has succeeded, setup(t1') for a target with
\* the same (selector, property) and another value issues exactly one remote
\* update, no remote remove and no remote setup, whenever the inspector is
\* connected -- also before the first poll has returned a model.
C1_ResetupIsUpdate ==
    [][\A t \in AllTargets :
          (/\ Active(t)
           /\ ev'.op = "setup"
           /\ SameEditor(ev'.target, t)
           /\ ev'.target # t
           /\ ~ev'.refused)
          => Kinds(ev'.issued) = <<"update">>]_vars

\* C2: in Active(t), update(u) for a target of another selector or property
\* issues the remote remove alone, and when that remove completes, thrown or
\* not, exactly one remote setup for u is issued (so the two are never in
\* flight together).
C2_SwitchIsRemoveThenSetup ==
    [][/\ \A t \in AllTargets :
            (/\ Active(t)
             /\ ev'.op = "update"
             /\ ~SameEditor(ev'.target, t)
             /\ ~ev'.refused)
            => Kinds(ev'.issued) = <<"remove">>
       /\ (/\ ev'.op \in {"resolve", "reject"}
           /\ ev'.cont = "switch"
           /\ ~ev'.refused)
          => ev'.issued = <<Expr("setup", ev'.target)>>]_vars

\* C3: in Active(t), update(u) with u's selector and property those of t issues
\* exactly one remote update and leaves the editor and the sync loop as they
\* are, whenever the inspector is connected -- also right after the setup.
C3_SameTargetUpdateKeepsEditor ==
    [][\A t \in AllTargets :
          (/\ Active(t)
           /\ ev'.op = "update"
           /\ SameEditor(ev'.target, t)
           /\ ~ev'.refused)
          => /\ Kinds(ev'.issued) = <<"update">>
             /\ _hasEditor'
             /\ timers' = timers
             /\ _syncInterval' = _syncInterval]_vars

\* a poll was answered and its result was merged
Merged == ev.op = "resolve" /\ ev.cont = "sync" /\ ~ev.threw

\* C4: a merged poll emits modelChange if and only if some key of the polled
\* mapping is absent from the cached snapshot or has another value there.
C4_ChangeIffDifferent ==
    Merged =>
        (ev.modelChange <=>
            \E key \in DOMAIN ev.data :
                key \notin DOMAIN ev.before \/ ev.before[key] # ev.data[key])

\* M overwritten by N
Overwrite(M, N) ==
    [key \in DOMAIN M \cup DOMAIN N |-> IF key \in DOMAIN N THEN N[key] ELSE M[key]]

\* C5: after a merged poll of N on the snapshot M the snapshot is M overwritten
\* by N -- no key of M is removed -- and the modelChange notification, when
\* there is one, carries that snapshot.
C5_MergeOverwrites ==
    Merged =>
        /\ _model = Overwrite(ev.before, ev.data)
        /\ DOMAIN ev.before \subseteq DOMAIN _model
        /\ ev.modelChange => ev.payload = _model

\* a poll that kept a key the polled mapping lacks and overwrote another
C5_Witness ==
    /\ Merged
    /\ ev.modelChange
    /\ \E key \in DOMAIN ev.before : key \notin DOMAIN ev.data
    /\ \E key \in DOMAIN ev.before \cap DOMAIN ev.data :
           ev.before[key] # ev.data[key] /\ _model[key] = ev.data[key]

\* a failure with the missing-namespace diagnostic reached the failure handler
LostContextHandled(e) ==
    e.op = "reject" /\ e.outcome = LostContext /\ e.cont \in {"setup", "update", "sync"}

\* C6: a LostContext failure with budget 0 is abandoned, with no injection and
\* the budget unchanged; with a budget left it takes exactly one from it; and
\* an injection that succeeds resets the budget to 5.
C6_ReconnectBudget ==
    [][/\ LostContextHandled(ev') =>
            IF _retryCount = 0
            THEN _retryCount' = 0 /\ ~ev'.init /\ ev'.issued = <<>>
            ELSE _retryCount' = _retryCount - 1 /\ ev'.init
       /\ (ev'.op = "resolve" /\ ev'.cont = "onPostInit")
          => _retryCount' = RetryMax]_vars

\* C7: remove() without an editor issues no remote call, changes no session
\* state and returns an already resolved promise.
C7_RemoveWithoutEditor ==
    [][(ev'.op = "remove" /\ ~_hasEditor)
       => /\ ev'.issued = <<>>
          /\ UNCHANGED <<_model, _hasEditor, _syncInterval, timers, _retryCount,
                         _cache, pending>>
          /\ ev'.ret = "resolved"]_vars

\* C8: without an editor the model snapshot is empty.
C8_NoEditorNoModel ==
    ~_hasEditor => _model = EmptyObject

\* C9: at most one remote setup, update or remove is in flight.
C9_OneLifecycleCall ==
    Cardinality({i \in 1..Len(pending) : pending[i].kind \in Lifecycle}) <= 1

\* a failure that is no LostContext reached the failure handler: a thrown
\* evaluation with another diagnostic, or the rejection of a poll that was not
\* sent because the inspector is not connected
RemoteFaultHandled(e) ==
    \/ e.op = "reject" /\ e.outcome = RemoteFault /\ e.cont \in {"setup", "update", "sync"}
    \/ e.op = "tick" /\ e.refused

\* C10: after a RemoteFault reached the failure handler the cached target is
\* none, there is no editor, the model is empty and no timer runs; no injection
\* was attempted and the budget is unchanged.
C10_RemoteFaultCleansUp ==
    [][RemoteFaultHandled(ev')
       => /\ _cache'.model = Undefined
          /\ ~_hasEditor'
          /\ _model' = EmptyObject
          /\ timers' = 0
          /\ ~ev'.init
          /\ _retryCount' = _retryCount]_vars

\* the injection of a reconnect succeeded and its callback re-issued a setup
Reinjected(e) ==
    e.op = "resolve" /\ e.cont = "onPostInit" /\ ~e.threw /\ ~e.refused

\* C11: the remote setup re-issued after a successful injection carries the
\* target of the most recent client setup/update that issued a remote call.
C11_ReconnectRestoresLast ==
    [][Reinjected(ev') => ev'.issued = <<Expr("setup", hist.last)>>]_vars

\* C12: when a LostContext failure arrives with the budget at 0 and the
\* reconnect is abandoned, afterwards there is no editor, the model is empty
\* and no sync timer runs.
C12_AbandonResets ==
    [][(LostContextHandled(ev') /\ _retryCount = 0)
       => /\ ~_hasEditor'
          /\ _model' = EmptyObject
          /\ timers' = 0]_vars

\* C13: at most one sync timer runs.
C13_OneSyncTimer ==
    timers <= 1

\* C14: between handlers, no sync timer runs while there is no editor.
C14_LoopOnlyWithEditor ==
    ~_hasEditor => timers = 0

\* a client remove() has just torn the editor down
Removed == ev.op = "remove" /\ Kinds(ev.issued) = <<"remove">>

\* the response to a getModel, setup or update call arrived
Arrived(e) ==
    e.op \in {"resolve", "reject"} /\ e.call \in {"getModel", "setup", "update"}

\* C15: the response to a getModel, setup or update call that was in flight
\* when remove() moved the session to NoEditor changes no session state and
\* issues no remote call and no injection.
C15_StaleResponsesIgnored ==
    [][(Removed /\ Arrived(ev'))
       => /\ UNCHANGED <<_model, _hasEditor, _syncInterval, timers, _retryCount,
                         _cache>>
          /\ pending' = Tail(pending)
          /\ ev'.issued = <<>>
          /\ ~ev'.init]_vars

\* the handlers that are no reconnect: the client's calls, a tick, a poll that
\* was answered, and the handling of a RemoteFault
NoReconnect(e) ==
    \/ e.op \in {"init", "setup", "update", "remove", "tick"}
    \/ e.op = "resolve" /\ e.cont = "sync"
    \/ RemoteFaultHandled(e)

\* C16: the budget stays within 0..5; it goes down, by exactly 1, only when a
\* LostContext failure starts a reconnect with a budget left; it goes up, to 5,
\* only when the injection of a reconnect has succeeded; the client's calls,
\* polls and RemoteFault handling leave it as it is.
C16_BudgetMoves ==
    /\ [](_retryCount \in 0..RetryMax)
    /\ [][/\ (_retryCount' < _retryCount)
             => (/\ _retryCount' = _retryCount - 1
                 /\ LostContextHandled(ev')
                 /\ ev'.init)
          /\ (_retryCount' > _retryCount)
             => (/\ _retryCount' = RetryMax
                 /\ ev'.op = "resolve"
                 /\ ev'.cont = "onPostInit")
          /\ NoReconnect(ev') => _retryCount' = _retryCount]_vars

\* a reconnect has just taken the last attempt of the budget
C16_Witness ==
    LostContextHandled(ev) /\ ev.init /\ _retryCount = 0

\* a step in which a LostContext failure starts a reconnect: an injection is
\* attempted
Reconnecting == LostContextHandled(ev') /\ ev'.init

\* a step of the client: a call of an exported operation
ClientStep == ev'.op \in {"init", "setup", "update", "remove"}

\* C17: when every remote setup and every poll fails with LostContext, the
\* session eventually stops attempting to reconnect: only finitely many
\* injections are attempted -- at the latest once the client has stopped
\* calling.
C17_RecoveryStops ==
    (<>[][~ClientStep]_vars) => <>[][~Reconnecting]_vars

\* a poll was answered and not thrown by the page
PollAnswered(e) == e.op = "resolve" /\ e.cont = "sync"

\* C18: no answered poll throws out of its callback; one whose result is
\* malformed, so that no mapping was parsed from it (the mappings the page
\* reports are not empty), is handled like a remote fault: afterwards there is
\* no editor, the model is empty, no sync timer runs, and no modelChange was
\* emitted.
C18_MalformedPollHandled ==
    [][PollAnswered(ev')
       => /\ ~ev'.threw
          /\ (ev'.data = EmptyObject)
             => (/\ ~_hasEditor'
                 /\ _model' = EmptyObject
                 /\ timers' = 0
                 /\ ~ev'.modelChange)]_vars

\* the injection of the scripts as an expression (line 279)
Injection(scripts) == [kind |-> "init", target |-> Undefined, scripts |-> scripts]

\* C19: once initialize has cached a dependency sequence, a reconnect leaves
\* the cached sequence as it is and, when the inspector is connected, evaluates
\* exactly that sequence.
C19_ReconnectKeepsDependencies ==
    [][(Reconnecting /\ _cache.dependencies # <<>>)
       => /\ _cache'.dependencies = _cache.dependencies
          /\ ~ev'.refused => ev'.issued = <<Injection(_cache.dependencies)>>]_vars

\* C20: when the injection of a reconnect succeeds, the cached target that
\* the post-injection step hands to setup is defined, and the step does not
\* throw.
C20_ReconnectHasTarget ==
    [][(ev'.op = "resolve" /\ ev'.cont = "onPostInit")
       => (_cache.model # Undefined /\ ~ev'.threw)]_vars

====
